---------------------------- MODULE Spec2Model ----------------------------
(***************************************************************************)
(* A model of llm_tools_fabric.py: the pattern selector                    *)
(* (_auto_select_pattern), the source normalizers (_normalize_url,         *)
(* _normalize_github_repo, _normalize_youtube_url), the source loader      *)
(* (_load_source, _download_url_to_temp) and the tool entry point          *)
(* (prompt_fabric).                                                        *)
(*                                                                         *)
(* Python strings are TLA+ strings; a character is a string of length 1.   *)
(* Python's None is the value None.  An exception is a record              *)
(* [exc |-> type, msg |-> the variable text of its message].               *)
(***************************************************************************)
EXTENDS Integers, Sequences, FiniteSets, TLC

VARIABLES
    pc,            \* position of the call under study
    task,          \* argument task
    pattern,       \* argument pattern
    input_text,    \* argument / local input_text
    source,        \* argument source
    argument,      \* argument of a normalizer
    fn,            \* which normalizer is applied
    selected,      \* value returned by _auto_select_pattern
    normalized,    \* outcome of normalizer(argument)
    renormalized,  \* outcome of normalizer(normalized value)
    world,         \* behaviour of the collaborators during this call
    tmpfiles,      \* temporary files existing on disk
    loaded,        \* what the loader collaborator was called with
    envelope,      \* value returned by prompt_fabric
    interpolated,  \* the texts prompt_fabric interpolated into the envelope
    raised         \* type of the exception that left prompt_fabric (None: none)

vars == <<pc, task, pattern, input_text, source, argument, fn, selected,
          normalized, renormalized, world, tmpfiles, loaded, envelope,
          interpolated, raised>>

None == "<None>"

(***************************************************************************)
(* Python string primitives.                                               *)
(***************************************************************************)
Min(a, b) == IF a < b THEN a ELSE b

\* s[i:j] with 0 <= i, 0-based, end exclusive, clipped to the string
Slice(s, i, j) ==
    LET hi == Min(j, Len(s))
    IN  IF i >= hi THEN "" ELSE SubSeq(s, i + 1, hi)

\* s[i:]
SliceFrom(s, i) == Slice(s, i, Len(s))

\* sub in s
Contains(s, sub) ==
    \E i \in 0..(Len(s) - Len(sub)) : Slice(s, i, i + Len(sub)) = sub

\* s.startswith(p)
StartsWith(s, p) == Len(p) <= Len(s) /\ Slice(s, 0, Len(p)) = p

\* s.endswith(p)
EndsWith(s, p) == Len(p) <= Len(s) /\ Slice(s, Len(s) - Len(p), Len(s)) = p

\* s.find(sub): 0-based index of the first occurrence, -1 when there is none
Find(s, sub) ==
    IF Contains(s, sub)
    THEN CHOOSE i \in 0..(Len(s) - Len(sub)) :
            /\ Slice(s, i, i + Len(sub)) = sub
            /\ \A k \in 0..(i - 1) : Slice(s, k, k + Len(sub)) # sub
    ELSE -1

LowerChar(c) ==
    CASE c = "A" -> "a" [] c = "B" -> "b" [] c = "C" -> "c" [] c = "D" -> "d"
      [] c = "E" -> "e" [] c = "F" -> "f" [] c = "G" -> "g" [] c = "H" -> "h"
      [] c = "I" -> "i" [] c = "J" -> "j" [] c = "K" -> "k" [] c = "L" -> "l"
      [] c = "M" -> "m" [] c = "N" -> "n" [] c = "O" -> "o" [] c = "P" -> "p"
      [] c = "Q" -> "q" [] c = "R" -> "r" [] c = "S" -> "s" [] c = "T" -> "t"
      [] c = "U" -> "u" [] c = "V" -> "v" [] c = "W" -> "w" [] c = "X" -> "x"
      [] c = "Y" -> "y" [] c = "Z" -> "z" [] OTHER -> c

\* s.lower()
RECURSIVE Lower(_)
Lower(s) ==
    IF Len(s) = 0 THEN ""
    ELSE IF Len(s) = 1 THEN LowerChar(s)
    ELSE Lower(Slice(s, 0, Len(s) \div 2)) \o Lower(SliceFrom(s, Len(s) \div 2))

IsSpace(c) == c \in {" ", "\t", "\n", "\r"}

\* s.strip()
RECURSIVE LStrip(_)
LStrip(s) ==
    IF Len(s) > 0 /\ IsSpace(Slice(s, 0, 1)) THEN LStrip(SliceFrom(s, 1)) ELSE s

RECURSIVE RStrip(_)
RStrip(s) ==
    IF Len(s) > 0 /\ IsSpace(SliceFrom(s, Len(s) - 1))
    THEN RStrip(Slice(s, 0, Len(s) - 1)) ELSE s

Strip(s) == RStrip(LStrip(s))

\* s.split(sep): the sequence of the pieces between the occurrences of sep
RECURSIVE Split(_, _)
Split(s, sep) ==
    LET i == Find(s, sep)
    IN  IF i < 0 THEN <<s>>
        ELSE <<Slice(s, 0, i)>> \o Split(SliceFrom(s, i + Len(sep)), sep)

\* s.split(sep, 1): cut at the first occurrence of sep only
SplitOnce(s, sep) ==
    LET i == Find(s, sep)
    IN  IF i < 0 THEN <<s>>
        ELSE <<Slice(s, 0, i), SliceFrom(s, i + Len(sep))>>

\* s.replace(old, new) for a single character old
RECURSIVE Replace(_, _, _)
Replace(s, old, new) ==
    IF Len(s) = 0 THEN ""
    ELSE IF Len(s) = 1 THEN (IF s = old THEN new ELSE s)
    ELSE Replace(Slice(s, 0, Len(s) \div 2), old, new)
            \o Replace(SliceFrom(s, Len(s) \div 2), old, new)

(***************************************************************************)
(* The rule tables.                                                        *)
(***************************************************************************)
Rule(kw, hints, pat) == [keywords |-> kw, content_hints |-> hints, pattern_name |-> pat]

YouTubeHints == <<"youtube.com", "youtu.be">>

AUTO_SELECT_RULES == <<
    Rule(<<"youtube", "video", "summarize">>, YouTubeHints, "youtube_summary"),
    Rule(<<"wisdom", "insights", "extract">>, YouTubeHints, "extract_wisdom"),
    Rule(<<"lecture", "class", "lesson">>, YouTubeHints, "summarize_lecture"),
    Rule(<<"chapters", "timestamps", "sections">>, YouTubeHints, "create_video_chapters"),
    Rule(<<"paper", "academic", "research">>, <<>>, "summarize_paper"),
    Rule(<<"analyze", "paper">>, <<>>, "analyze_paper"),
    Rule(<<"threat", "report">>, <<>>, "analyze_threat_report"),
    Rule(<<"malware", "ioc", "indicator">>, <<>>, "analyze_malware"),
    Rule(<<"sigma", "detection", "rule">>, <<>>, "create_sigma_rules"),
    Rule(<<"stride", "threat", "model">>, <<>>, "create_stride_threat_model"),
    Rule(<<"explain", "code">>, <<>>, "explain_code"),
    Rule(<<"review", "design", "architecture">>, <<>>, "review_design"),
    Rule(<<"extract", "ideas">>, <<>>, "extract_ideas"),
    Rule(<<"extract", "insights">>, <<>>, "extract_insights"),
    Rule(<<"analyze", "claims", "truth">>, <<>>, "analyze_claims"),
    Rule(<<"summarize">>, <<>>, "summarize") >>

SOURCE_ACTIONS ==
    [p \in {"yt", "pdf"} |->
        IF p = "yt"
        THEN << <<"summarize", "youtube_summary">>,
                <<"wisdom", "extract_wisdom">>,
                <<"extract", "extract_wisdom">>,
                <<"insights", "extract_wisdom">>,
                <<"lecture", "summarize_lecture">>,
                <<"chapters", "create_video_chapters">>,
                <<"", "youtube_summary">> >>
        ELSE << <<"summarize", "summarize_paper">>,
                <<"analyze", "analyze_paper">>,
                <<"", "summarize_paper">> >>]

\* the number of characters of the input that are searched for hints
HintWindow == 1000

(***************************************************************************)
(* _auto_select_pattern                                                    *)
(***************************************************************************)
\* the for loop over SOURCE_ACTIONS[prefix], from entry i on, default_pattern
\* being what the entries before i left; None when the loop and the default
\* give nothing
RECURSIVE ScanActions(_, _, _, _)
ScanActions(actions, i, task_lower, default_pattern) ==
    IF i > Len(actions)
    THEN default_pattern
    ELSE IF actions[i][1] = ""
         THEN ScanActions(actions, i + 1, task_lower, actions[i][2])
         ELSE IF Contains(task_lower, actions[i][1])
              THEN actions[i][2]
              ELSE ScanActions(actions, i + 1, task_lower, default_pattern)

\* a slip: a rule without hints asks for any keyword instead of all of them
RuleMatches_AnyKeyword(rule, task_lower, input_lower) ==
    /\ \E k \in 1..Len(rule.keywords) : Contains(task_lower, rule.keywords[k])
    /\ Len(rule.content_hints) > 0 =>
          \E h \in 1..Len(rule.content_hints) : Contains(input_lower, rule.content_hints[h])

\* the condition under which the loop over AUTO_SELECT_RULES returns at a rule
RuleMatches(rule, task_lower, input_lower) ==
    IF Len(rule.content_hints) > 0
    THEN /\ \E k \in 1..Len(rule.keywords) : Contains(task_lower, rule.keywords[k])
         /\ \E h \in 1..Len(rule.content_hints) : Contains(input_lower, rule.content_hints[h])
    ELSE \A k \in 1..Len(rule.keywords) : Contains(task_lower, rule.keywords[k])

\* a slip: the loop keeps going and the last matching rule wins
RECURSIVE ScanRules_LastMatch(_, _, _)
ScanRules_LastMatch(i, task_lower, input_lower) ==
    IF i > Len(AUTO_SELECT_RULES)
    THEN None
    ELSE LET later == ScanRules_LastMatch(i + 1, task_lower, input_lower)
         IN  IF later # None THEN later
             ELSE IF RuleMatches(AUTO_SELECT_RULES[i], task_lower, input_lower)
                  THEN AUTO_SELECT_RULES[i].pattern_name
                  ELSE None

\* the for loop over AUTO_SELECT_RULES from rule i on
RECURSIVE ScanRules(_, _, _)
ScanRules(i, task_lower, input_lower) ==
    IF i > Len(AUTO_SELECT_RULES)
    THEN None
    ELSE IF RuleMatches(AUTO_SELECT_RULES[i], task_lower, input_lower)
         THEN AUTO_SELECT_RULES[i].pattern_name
         ELSE ScanRules(i + 1, task_lower, input_lower)

\* a slip: the prefix is compared without lower-casing it
SourceLookup_CaseSensitive(task_lower, src) ==
    IF Contains(src, ":")
    THEN LET prefix == SplitOnce(src, ":")[1]
         IN  IF prefix \in DOMAIN SOURCE_ACTIONS
             THEN ScanActions(SOURCE_ACTIONS[prefix], 1, task_lower, None)
             ELSE None
    ELSE None

\* the source-based lookup: the pattern it returns, None when it falls through
SourceLookup(task_lower, src) ==
    IF Contains(src, ":")
    THEN LET prefix == Lower(SplitOnce(src, ":")[1])
         IN  IF prefix \in DOMAIN SOURCE_ACTIONS
             THEN ScanActions(SOURCE_ACTIONS[prefix], 1, task_lower, None)
             ELSE None
    ELSE None

\* a slip: the slice is one character too long
InputSample_OffByOne(inp) == Slice(Lower(inp), 0, HintWindow + 1)

\* input_text.lower()[:1000]
InputSample(inp) == Slice(Lower(inp), 0, HintWindow)

_auto_select_pattern(t, inp, src) ==
    LET task_lower  == Lower(t)
        by_source   == SourceLookup(task_lower, src)
        input_lower == InputSample(inp)
    IN  IF by_source # None
        THEN by_source
        ELSE ScanRules(1, task_lower, input_lower)

(***************************************************************************)
(* Outcomes of a call: a returned value or a raised exception.             *)
(***************************************************************************)
Return(v) == [ok |-> TRUE, val |-> v, exc |-> None, msg |-> ""]

Raise(type, message) == [ok |-> FALSE, val |-> None, exc |-> type, msg |-> message]

HasScheme(s) == StartsWith(s, "http://") \/ StartsWith(s, "https://")

(***************************************************************************)
(* _normalize_url                                                          *)
(***************************************************************************)
_normalize_url(arg) ==
    LET a == Strip(arg)
    IN  IF HasScheme(a) THEN Return(a) ELSE Return("https://" \o a)

(***************************************************************************)
(* _normalize_github_repo                                                  *)
(***************************************************************************)
InvalidGithub(a) ==
    Raise("ValueError", "Invalid GitHub reference: '" \o a \o "'")

\* the branch taken when the argument contains github.com: the value it
\* returns, None when it falls through to the owner/repo branch
GithubUrlBranch(a) ==
    LET url1  == IF HasScheme(a) THEN SplitOnce(a, "://")[2] ELSE a
        url2  == IF StartsWith(url1, "github.com/") THEN SliceFrom(url1, 11) ELSE url1
        parts == Split(url2, "/")
        owner == parts[1]
        repo  == IF EndsWith(parts[2], ".git")
                 THEN Slice(parts[2], 0, Len(parts[2]) - 4)
                 ELSE parts[2]
    IN  IF Len(parts) >= 2 THEN owner \o "/" \o repo ELSE None

\* the branch for an argument already in owner/repo format
GithubPlainBranch(a) ==
    LET parts == Split(a, "/")
    IN  IF /\ Contains(a, "/")
           /\ ~StartsWith(a, "/")
           /\ Len(parts) >= 2
           /\ parts[1] # ""
           /\ parts[2] # ""
        THEN Return(parts[1] \o "/" \o Split(parts[2], ".git")[1])
        ELSE InvalidGithub(a)

_normalize_github_repo(arg) ==
    LET a       == Strip(arg)
        fromUrl == IF Contains(a, "github.com") THEN GithubUrlBranch(a) ELSE None
    IN  IF fromUrl # None THEN Return(fromUrl) ELSE GithubPlainBranch(a)

(***************************************************************************)
(* _normalize_youtube_url                                                  *)
(***************************************************************************)
youtube_domains == <<"youtube.com", "www.youtube.com", "m.youtube.com", "youtu.be">>

\* [a-zA-Z0-9_-]
IsIdChar(c) ==
    LowerChar(c) \in
        {"a", "b", "c", "d", "e", "f", "g", "h", "i", "j", "k", "l", "m",
         "n", "o", "p", "q", "r", "s", "t", "u", "v", "w", "x", "y", "z",
         "0", "1", "2", "3", "4", "5", "6", "7", "8", "9", "_", "-"}

MinIdLen == 10

MaxIdLen == 12

\* re.match(r'^[a-zA-Z0-9_-]{10,12}$', s)
IsVideoId(s) ==
    /\ Len(s) >= MinIdLen
    /\ Len(s) <= MaxIdLen
    /\ \A i \in 0..(Len(s) - 1) : IsIdChar(Slice(s, i, i + 1))

_normalize_youtube_url(arg) ==
    LET a == Strip(arg)
    IN  IF HasScheme(a) THEN Return(a)
        ELSE IF \E d \in 1..Len(youtube_domains) : StartsWith(a, youtube_domains[d])
        THEN Return("https://" \o a)
        ELSE IF IsVideoId(a)
        THEN Return("https://www.youtube.com/watch?v=" \o a)
        ELSE Raise("ValueError", "Invalid YouTube reference: '" \o a \o "'")

\* the normalizer that _load_source applies for a source tag
Normalizer(f, arg) ==
    CASE f = "url"    -> _normalize_url(arg)
      [] f = "github" -> _normalize_github_repo(arg)
      [] f = "yt"     -> _normalize_youtube_url(arg)

(***************************************************************************)
(* Values of the variables a specification does not use.                   *)
(***************************************************************************)
NoOutcome == [ok |-> FALSE, val |-> None, exc |-> None, msg |-> ""]

NoWorld == [loaders |-> {}, fs |-> {}]

NoLoad == [loader |-> None, arg |-> None]

NoEnvelope == [tag |-> None, attr |-> None, value |-> "", auto_selected |-> FALSE,
               body |-> None, payload |-> ""]

NoTexts == [value |-> "", payload |-> ""]

NormalizerIdle ==
    /\ argument = ""
    /\ fn = None
    /\ normalized = NoOutcome
    /\ renormalized = NoOutcome

SelectorIdle ==
    /\ task = ""
    /\ pattern = ""
    /\ input_text = ""
    /\ source = ""
    /\ selected = None

FabricIdle ==
    /\ world = NoWorld
    /\ tmpfiles = {}
    /\ loaded = NoLoad
    /\ envelope = NoEnvelope
    /\ interpolated = NoTexts
    /\ raised = None

(***************************************************************************)
(* The selector on its own: _auto_select_pattern(task, input_text, source) *)
(***************************************************************************)
MaxTaskWords == 2

TaskWords ==
    {"summarize", "Summarize", "analyze paper", "paper", "academic research",
     "extraction", "ideas", "insights", "chapters"}

\* the phrases of at most n words, separated by one space
RECURSIVE Phrases(_)
Phrases(n) ==
    IF n = 0 THEN {""}
    ELSE LET shorter == Phrases(n - 1)
         IN  shorter \cup
             {IF p = "" THEN w ELSE p \o " " \o w : p \in shorter, w \in TaskWords}

Tasks == Phrases(MaxTaskWords)

SelectInputs == {"plain text", "see https://YouTu.be/abc"}

SelectSources == {"", "notag", "file:a.md", "PDF:paper.pdf", "yt:abc"}

InitSelect ==
    /\ pc = "call"
    /\ task \in Tasks
    /\ pattern = ""
    /\ input_text \in SelectInputs
    /\ source \in SelectSources
    /\ selected = None
    /\ NormalizerIdle
    /\ FabricIdle

AutoSelect ==
    /\ pc = "call"
    /\ selected' = _auto_select_pattern(task, input_text, source)
    /\ pc' = "selected"
    /\ UNCHANGED <<task, pattern, input_text, source, argument, fn, normalized,
                   renormalized, world, tmpfiles, loaded, envelope, interpolated,
                   raised>>

NextSelect == AutoSelect

SpecSelect == InitSelect /\ [][NextSelect]_vars

(***************************************************************************)
(* The selector on inputs that carry one hint around the 1000th character. *)
(***************************************************************************)
PadSlack == 2

MaxHintLen == Len("youtube.com")

RECURSIVE Repeat(_, _)
Repeat(c, n) ==
    IF n <= 0 THEN ""
    ELSE IF n = 1 THEN c
    ELSE Repeat(c, n \div 2) \o Repeat(c, n - (n \div 2))

PadLengths == (HintWindow - MaxHintLen - PadSlack)..(HintWindow + PadSlack)

HintTexts == {"youtube.com", "youtu.be", "YouTu.be"}

HintInputs == {Repeat("x", n) \o h \o " ok" : n \in PadLengths, h \in HintTexts}

HintTasks == {"summarize", "Extract wisdom", "hello"}

InitHint ==
    /\ pc = "call"
    /\ task \in HintTasks
    /\ pattern = ""
    /\ input_text \in HintInputs
    /\ source \in {"", "file:a.md"}
    /\ selected = None
    /\ NormalizerIdle
    /\ FabricIdle

SpecHint == InitHint /\ [][NextSelect]_vars

(***************************************************************************)
(* Properties of the selector.                                             *)
(***************************************************************************)
\* the source tag: the lower-cased text before the first ':', None without ':'
SourceTag(src) ==
    IF Contains(src, ":") THEN Lower(Slice(src, 0, Find(src, ":"))) ELSE None

KnownTag(src) == SourceTag(src) \in {"yt", "pdf"}

RuleIndexes == 1..Len(AUTO_SELECT_RULES)

HintRules == {i \in RuleIndexes : AUTO_SELECT_RULES[i].content_hints # <<>>}

PlainRules == RuleIndexes \ HintRules

SetMin(S) == CHOOSE m \in S : \A x \in S : m <= x

AnyKeyword(i, t) ==
    \E k \in 1..Len(AUTO_SELECT_RULES[i].keywords) :
        Contains(Lower(t), AUTO_SELECT_RULES[i].keywords[k])

AllKeywords(i, t) ==
    \A k \in 1..Len(AUTO_SELECT_RULES[i].keywords) :
        Contains(Lower(t), AUTO_SELECT_RULES[i].keywords[k])

AnyHint(i, inp) ==
    \E h \in 1..Len(AUTO_SELECT_RULES[i].content_hints) :
        Contains(Slice(Lower(inp), 0, HintWindow), AUTO_SELECT_RULES[i].content_hints[h])

\* the condition of rule i as the rule table's comment states it
RuleHolds(i, t, inp) ==
    IF i \in HintRules
    THEN AnyKeyword(i, t) /\ AnyHint(i, inp)
    ELSE AllKeywords(i, t)

HoldingRules == {i \in RuleIndexes : RuleHolds(i, task, input_text)}

\* C1: without a known source tag, the pattern returned is that of the
\* first rule, in declaration order, whose condition holds; None is returned
\* exactly when no rule's condition holds.
C1_FirstRuleWins ==
    (pc = "selected" /\ ~KnownTag(source)) =>
        IF HoldingRules = {}
        THEN selected = None
        ELSE selected = AUTO_SELECT_RULES[SetMin(HoldingRules)].pattern_name

\* two rules with different patterns hold for the same task and input, and
\* the earlier one's pattern was returned
C1_Witness ==
    /\ pc = "selected"
    /\ ~KnownTag(source)
    /\ \E i, j \in HoldingRules :
          /\ i < j
          /\ i = SetMin(HoldingRules)
          /\ AUTO_SELECT_RULES[i].pattern_name # AUTO_SELECT_RULES[j].pattern_name
          /\ selected = AUTO_SELECT_RULES[i].pattern_name

ActionHits(tag, t) ==
    {a \in 1..Len(SOURCE_ACTIONS[tag]) :
        /\ SOURCE_ACTIONS[tag][a][1] # ""
        /\ Contains(Lower(t), SOURCE_ACTIONS[tag][a][1])}

DefaultPattern(tag) ==
    SOURCE_ACTIONS[tag][CHOOSE a \in 1..Len(SOURCE_ACTIONS[tag]) :
                            SOURCE_ACTIONS[tag][a][1] = ""][2]

\* C2: with a known source tag (yt, pdf, compared case-insensitively) the
\* pattern returned is that of the first action keyword of the tag's table
\* found in the lower-cased task, and the tag's default pattern when none is
\* found; the global rules play no part and the result is never None.
C2_SourceTagDecides ==
    (pc = "selected" /\ KnownTag(source)) =>
        LET tag  == SourceTag(source)
            hits == ActionHits(tag, task)
        IN  /\ selected # None
            /\ selected = IF hits = {}
                          THEN DefaultPattern(tag)
                          ELSE SOURCE_ACTIONS[tag][SetMin(hits)][2]

\* a known tag written in upper case, no action keyword in the task, and a
\* global rule that holds with another pattern: the default was returned
C2_Witness ==
    /\ pc = "selected"
    /\ KnownTag(source)
    /\ SplitOnce(source, ":")[1] # SourceTag(source)
    /\ ActionHits(SourceTag(source), task) = {}
    /\ HoldingRules # {}
    /\ selected = DefaultPattern(SourceTag(source))
    /\ selected # AUTO_SELECT_RULES[SetMin(HoldingRules)].pattern_name

\* C3 as stated: without a known source tag, a rule without hints has its
\* pattern returned if and only if all its keywords are in the task.
C3_AsStated ==
    (pc = "selected" /\ ~KnownTag(source)) =>
        \A i \in PlainRules :
            (selected = AUTO_SELECT_RULES[i].pattern_name) <=> AllKeywords(i, task)

\* C3 amended: without a known source tag, a rule without hints has its
\* pattern returned if and only if all its keywords are in the task and no
\* rule declared before it holds.
C3_PlainRuleIffFirst ==
    (pc = "selected" /\ ~KnownTag(source)) =>
        \A i \in PlainRules :
            (selected = AUTO_SELECT_RULES[i].pattern_name)
                <=> (AllKeywords(i, task)
                     /\ \A j \in 1..(i - 1) : ~RuleHolds(j, task, input_text))

\* a rule without hints has all its keywords in the task and is returned,
\* while a later rule without hints has all its keywords in the task too
C3_Witness ==
    /\ pc = "selected"
    /\ ~KnownTag(source)
    /\ \E i, j \in PlainRules :
          /\ i < j
          /\ AllKeywords(i, task)
          /\ AllKeywords(j, task)
          /\ selected = AUTO_SELECT_RULES[i].pattern_name

\* the occurrences <<hint, 0-based start>> of the content hints in the
\* whole lower-cased input
HintOccurrences(inp) ==
    LET low == Lower(inp)
    IN  {<<h, p>> \in (1..Len(YouTubeHints)) \X (0..Len(inp)) :
            Slice(low, p, p + Len(YouTubeHints[h])) = YouTubeHints[h]}

\* the first hint rule with one of its keywords in the task
FirstKeywordRule(t) == SetMin({i \in HintRules : AnyKeyword(i, t)})

\* C4 as stated: for a hint rule whose keyword condition holds, a hint whose
\* only occurrence starts at index 999 makes the rule match and one whose
\* only occurrence starts at index 1000 does not.
C4_AsStated ==
    (/\ pc = "selected"
     /\ ~KnownTag(source)
     /\ \E i \in HintRules : AnyKeyword(i, task)
     /\ Cardinality(HintOccurrences(input_text)) = 1) =>
        LET rule == AUTO_SELECT_RULES[FirstKeywordRule(task)]
            occ  == CHOOSE o \in HintOccurrences(input_text) : TRUE
        IN  /\ occ[2] = HintWindow - 1 => selected = rule.pattern_name
            /\ occ[2] = HintWindow => selected # rule.pattern_name

\* C4 amended: for a hint rule whose keyword condition holds, a hint whose
\* only occurrence starts at index p makes the rule match if and only if the
\* occurrence ends within the first 1000 characters: p + len(hint) <= 1000.
C4_HintWithinWindow ==
    (/\ pc = "selected"
     /\ ~KnownTag(source)
     /\ \E i \in HintRules : AnyKeyword(i, task)
     /\ Cardinality(HintOccurrences(input_text)) = 1) =>
        LET rule == AUTO_SELECT_RULES[FirstKeywordRule(task)]
            occ  == CHOOSE o \in HintOccurrences(input_text) : TRUE
        IN  (selected = rule.pattern_name)
                <=> (occ[2] + Len(YouTubeHints[occ[1]]) <= HintWindow)

\* the hint's last character is the 1000th of the input, and the rule matched
C4_Witness ==
    /\ pc = "selected"
    /\ ~KnownTag(source)
    /\ \E i \in HintRules : AnyKeyword(i, task)
    /\ \E o \in HintOccurrences(input_text) :
          /\ HintOccurrences(input_text) = {o}
          /\ o[2] + Len(YouTubeHints[o[1]]) = HintWindow
    /\ selected = AUTO_SELECT_RULES[FirstKeywordRule(task)].pattern_name

(***************************************************************************)
(* The normalizers on their own: normalizer(argument), and the normalizer  *)
(* applied again to what it returned.                                      *)
(***************************************************************************)
MaxNameParts == 2

NameParts == {"repo", ".github.io", ".git"}

\* the names of at most n parts
RECURSIVE Names(_)
Names(n) ==
    IF n = 0 THEN {""}
    ELSE LET shorter == Names(n - 1)
         IN  shorter \cup {p \o w : p \in shorter, w \in NameParts}

Owners == {"o", "Git-Hub"}

\* the repository names of the four forms: not empty, not ending in .git
RepoNames == {n \in Names(MaxNameParts) : n # "" /\ ~EndsWith(n, ".git")}

GithubForms == 1..4

GithubForm(f, o, n) ==
    CASE f = 1 -> o \o "/" \o n
      [] f = 2 -> "github.com/" \o o \o "/" \o n
      [] f = 3 -> "https://github.com/" \o o \o "/" \o n \o ".git"
      [] f = 4 -> "https://github.com/" \o o \o "/" \o n \o "/tree/main/src"

GithubArguments ==
    {GithubForm(f, o, n) : f \in GithubForms, o \in Owners, n \in RepoNames}
        \cup {"", "repo", "/o/r", "o//r", " o/r ", "github.com", "github.com/",
              "github.com/o", "github.com/o/", "https://github.com//r",
              "http://github.com/o/r", "www.github.com/o/r"}

UrlArguments ==
    {"example.com/page", "https://example.com/a", "http://a.b/c", " example.com ",
     "HTTP://a.b", ""}

YoutubeArguments ==
    {"dQw4w9WgXcQ", "H17rN9Cz-_", "abcdefghijkl", "abcdefghijklm", "short",
     "dQw4w9WgXc!", "youtu.be/dQw4w9WgXcQ", "www.youtube.com/watch?v=a",
     "m.youtube.com/x", "youtube.com/shorts/x",
     "https://www.youtube.com/watch?v=dQw4w9WgXcQ", "http://youtu.be/x",
     " dQw4w9WgXcQ "}

NormalizerArguments(f) ==
    CASE f = "url"    -> UrlArguments
      [] f = "github" -> GithubArguments
      [] f = "yt"     -> YoutubeArguments

InitNorm ==
    /\ pc = "call"
    /\ fn \in {"url", "github", "yt"}
    /\ argument \in NormalizerArguments(fn)
    /\ normalized = NoOutcome
    /\ renormalized = NoOutcome
    /\ SelectorIdle
    /\ FabricIdle

Normalize ==
    /\ pc = "call"
    /\ normalized' = Normalizer(fn, argument)
    /\ pc' = "normalized"
    /\ UNCHANGED <<task, pattern, input_text, source, argument, fn, selected,
                   renormalized, world, tmpfiles, loaded, envelope, interpolated,
                   raised>>

Renormalize ==
    /\ pc = "normalized"
    /\ normalized.ok
    /\ renormalized' = Normalizer(fn, normalized.val)
    /\ pc' = "renormalized"
    /\ UNCHANGED <<task, pattern, input_text, source, argument, fn, selected,
                   normalized, world, tmpfiles, loaded, envelope, interpolated,
                   raised>>

NextNorm == Normalize \/ Renormalize

SpecNorm == InitNorm /\ [][NextNorm]_vars

(***************************************************************************)
(* Properties of the normalizers.                                          *)
(***************************************************************************)
\* C8: each of the four forms of a repository with a non-empty owner and a
\* non-empty name not ending in .git normalizes to exactly owner/name.
C8_FourFormsAgree ==
    (pc = "normalized" /\ fn = "github") =>
        \A f \in GithubForms, o \in Owners, n \in RepoNames :
            argument = GithubForm(f, o, n) => normalized = Return(o \o "/" \o n)

\* C9: every value _normalize_github_repo returns is owner/name with a
\* non-empty owner and a non-empty name; anything else raises ValueError.
C9_ReturnsOwnerAndName ==
    (pc = "normalized" /\ fn = "github") =>
        IF normalized.ok
        THEN LET parts == Split(normalized.val, "/")
             IN  Len(parts) = 2 /\ parts[1] # "" /\ parts[2] # ""
        ELSE normalized.exc = "ValueError"

\* an argument already in the form the normalizer produces
IsCanonical(f, x) ==
    CASE f = "url"    -> HasScheme(x)
      [] f = "yt"     -> StartsWith(x, "https://www.youtube.com/watch?v=")
      [] f = "github" -> \E o \in Owners, n \in RepoNames : x = o \o "/" \o n

\* C10: each normalizer returns an already canonical argument unchanged,
\* and applied again to what it returned it returns the same.
C10_Idempotent ==
    (pc \in {"normalized", "renormalized"} /\ IsCanonical(fn, argument)) =>
        /\ normalized = Return(argument)
        /\ pc = "renormalized" => renormalized = normalized

(***************************************************************************)
(* _escape_xml_attr                                                        *)
(***************************************************************************)
_escape_xml_attr(value) ==
    Replace(Replace(Replace(Replace(value, "&", "&amp;"), "<", "&lt;"), ">", "&gt;"),
            "\"", "&quot;")

(***************************************************************************)
(* Exceptions.  The faults of the collaborators are Exception subclasses.  *)
(***************************************************************************)
ExceptionTypes == {"ValueError", "OSError", "ImportError", "RuntimeError"}

\* isinstance(e, cls) for an exception of type t
IsInstance(t, cls) == t = cls \/ (cls = "Exception" /\ t \in ExceptionTypes)

(***************************************************************************)
(* _load_source, up to its call of a collaborator.                         *)
(***************************************************************************)
Home == "/home/user"

\* os.path.expanduser
expanduser(path) ==
    IF path = "~" \/ StartsWith(path, "~/") THEN Home \o SliceFrom(path, 1) ELSE path

\* os.path.exists
exists(w, path) == path \in w.fs

\* a slip: the check that the path exists on disk is missing
PdfIsUrl_NoExistsCheck(w, a) ==
    IF HasScheme(a) THEN TRUE
    ELSE IF \E m \in {"/", "./", "../", "~"} : StartsWith(a, m) THEN FALSE
    ELSE IF ~Contains(a, "/") THEN FALSE
    ELSE LET first_segment == Split(a, "/")[1]
         IN  Contains(first_segment, ".") /\ Len(Split(first_segment, ".")[1]) > 0

\* the pdf branch's decision between a URL and a local path
PdfIsUrl(w, a) ==
    IF HasScheme(a) THEN TRUE
    ELSE IF \E m \in {"/", "./", "../", "~"} : StartsWith(a, m) THEN FALSE
    ELSE IF exists(w, expanduser(a)) THEN FALSE
    ELSE IF ~Contains(a, "/") THEN FALSE
    ELSE LET first_segment == Split(a, "/")[1]
         IN  Contains(first_segment, ".") /\ Len(Split(first_segment, ".")[1]) > 0

Plan(kind, loader, arg, outcome) ==
    [kind |-> kind, loader |-> loader, arg |-> arg, outcome |-> outcome]

Fails(outcome) == Plan("raise", None, None, outcome)

\* a loader that is registered is called with the normalized argument
ViaLoader(w, name, missing, norm) ==
    IF name \notin w.loaders THEN Fails(Raise("ValueError", missing))
    ELSE IF ~norm.ok THEN Fails(norm)
    ELSE Plan("loader", name, norm.val, NoOutcome)

\* what _load_source does with a source before any collaborator answers:
\* raise, read a file, call a loader, download a document or fetch a page
LoadPlan(w, src) ==
    IF ~Contains(src, ":")
    THEN Fails(Raise("ValueError", "Invalid source format: " \o src))
    ELSE LET prefix == Lower(SplitOnce(src, ":")[1])
             arg    == SplitOnce(src, ":")[2]
         IN  CASE prefix = "file" ->
                    IF exists(w, expanduser(arg))
                    THEN Plan("read", None, expanduser(arg), NoOutcome)
                    ELSE Fails(Raise("ValueError", "File not found: " \o expanduser(arg)))
               [] prefix = "yt" ->
                    ViaLoader(w, "yt", "YouTube loader not available",
                              _normalize_youtube_url(arg))
               [] prefix = "pdf" ->
                    IF "pdf" \notin w.loaders
                    THEN Fails(Raise("ValueError", "PDF loader not available"))
                    ELSE IF PdfIsUrl(w, Strip(arg))
                    THEN Plan("download", "pdf", _normalize_url(Strip(arg)).val, NoOutcome)
                    ELSE Plan("loader", "pdf", expanduser(Strip(arg)), NoOutcome)
               [] prefix = "github" ->
                    ViaLoader(w, "github", "GitHub loader not available",
                              _normalize_github_repo(arg))
               [] prefix = "url" ->
                    Plan("fetch", None, _normalize_url(arg).val, NoOutcome)
               [] OTHER ->
                    Fails(Raise("ValueError", "Unknown source prefix: " \o prefix))

(***************************************************************************)
(* prompt_fabric: the envelopes it returns.                                *)
(***************************************************************************)
\* <tag attr="value" [auto_selected="true"]> body </tag>, the body being the
\* fixed text named by body with payload interpolated into it
Envelope(tag, attr, value, auto, body, payload) ==
    [tag |-> tag, attr |-> attr, value |-> value, auto_selected |-> auto,
     body |-> body, payload |-> payload]

\* return of an envelope whose attribute carries attr_text and whose body
\* carries body_text
Returns(tag, attr, attr_text, auto, body, body_text) ==
    /\ envelope' = Envelope(tag, attr, _escape_xml_attr(attr_text), auto, body, body_text)
    /\ interpolated' = [value |-> attr_text, payload |-> body_text]
    /\ raised' = None
    /\ pc' = "done"

\* an exception no handler of prompt_fabric catches leaves the call
Propagates(e) ==
    /\ raised' = e.exc
    /\ pc' = "done"
    /\ UNCHANGED <<envelope, interpolated>>

\* the handler around _load_source
LoadFailed(e) ==
    IF IsInstance(e.exc, "Exception")
    THEN Returns("fabric_error", "source", source, FALSE, "Failed to load source: {e}", e.msg)
    ELSE Propagates(e)

(***************************************************************************)
(* The answers of the collaborators.                                       *)
(***************************************************************************)
ResultTexts == {"ok", "a < b && \"c\" > 'd'"}

ErrorTexts == {"boom", "<error 'x' & \"y\">"}

\* a fragment loader: the joined text of its results, or a fault
LoaderOutcomes ==
    {Return(t) : t \in ResultTexts}
        \cup {Raise(ty, m) : ty \in {"ValueError", "RuntimeError"}, m \in ErrorTexts}

\* open(path).read()
ReadOutcomes ==
    {Return(t) : t \in ResultTexts} \cup {Raise("OSError", m) : m \in ErrorTexts}

\* urllib.request.urlopen(request) and response.read()
UrlopenOutcomes == {Return("%PDF")} \cup {Raise("OSError", m) : m \in ErrorTexts}

\* trafilatura: import, fetch_url (None when the fetch fails), extract
FetchOutcomes(url) ==
    {Return(t) : t \in ResultTexts \cup {""}}
        \cup {Raise("ImportError", "No module named 'trafilatura'"),
              Raise("ValueError", "Failed to fetch URL: " \o url)}

\* load_template("fabric:...")
LookupOutcomes ==
    {Return("system")} \cup {Raise(ty, m) : ty \in {"RuntimeError", "ImportError"},
                                            m \in ErrorTexts}

\* llm.get_model(...).prompt(...).text()
ModelOutcomes ==
    {Return(t) : t \in ResultTexts}
        \cup {Raise(ty, m) : ty \in {"ValueError", "RuntimeError"}, m \in ErrorTexts}

(***************************************************************************)
(* _download_url_to_temp, _run_pattern, _suggest_patterns                  *)
(***************************************************************************)
TempName == "/tmp/tmpab12cd.pdf"

\* the files on disk and the outcome once _download_url_to_temp is left:
\* NamedTemporaryFile(delete=False) has created the file before urlopen runs
_download_url_to_temp(files, urlopen) ==
    [files   |-> files \cup {TempName},
     outcome |-> IF urlopen.ok THEN Return(TempName) ELSE urlopen]

_run_pattern(pattern_name, lookup, answer) ==
    IF ~lookup.ok
    THEN IF IsInstance(lookup.exc, "Exception")
         THEN Raise("ValueError",
                    "Pattern '" \o pattern_name \o "' not found: " \o lookup.msg)
         ELSE lookup
    ELSE answer

\* a slip: the try/except around the suggestion call is missing
_suggest_patterns_Unguarded(t, lookup, answer) ==
    IF lookup.ok THEN answer ELSE lookup

_suggest_patterns(t, lookup, answer) ==
    LET tried == IF lookup.ok THEN answer ELSE lookup
    IN  IF tried.ok THEN tried
        ELSE IF IsInstance(tried.exc, "Exception")
        THEN Return("Error getting suggestions: " \o tried.msg)
        ELSE tried

(***************************************************************************)
(* prompt_fabric(task, pattern, input_text, source), step by step.         *)
(***************************************************************************)
FabricTasks == {"", "summarize", "tell <me> & 'you'"}

FabricPatterns == {"", "summarize", " fabric:a\"b'c "}

FabricInputs == {"", "some text"}

FabricSources ==
    {"", "nocolon", "zip:x", "file:a.md", "file:~/none.md", "yt:dQw4w9WgXcQ",
     "YT:bad id", "pdf:https://e.com/p.pdf", "pdf:e.com/p.pdf", "pdf:./p.pdf",
     "pdf:p.pdf", "pdf:docs.v2/p.pdf", "pdf:docs/p.pdf", "pdf:.cfg/p.pdf",
     "pdf:~/p.pdf", "pdf: e.com/p.pdf ", "github:o/r", "github:x", "url:e.com/<a>"}

Worlds ==
    [loaders : {{}, {"yt", "pdf", "github"}},
     fs      : {{}, {"a.md", "docs.v2/p.pdf"}}]

InitFabric ==
    /\ pc = "start"
    /\ task \in FabricTasks
    /\ pattern \in FabricPatterns
    /\ input_text \in FabricInputs
    /\ source \in FabricSources
    /\ world \in Worlds
    /\ selected = None
    /\ tmpfiles = {}
    /\ loaded = NoLoad
    /\ envelope = NoEnvelope
    /\ interpolated = NoTexts
    /\ raised = None
    /\ NormalizerIdle

CallFixed == <<task, pattern, source, world, argument, fn, normalized, renormalized>>

\* _load_source returned or raised
Loaded(o) ==
    IF o.ok
    THEN /\ input_text' = o.val
         /\ pc' = "validate"
         /\ UNCHANGED <<envelope, interpolated, raised>>
    ELSE /\ LoadFailed(o)
         /\ UNCHANGED input_text

\* if source: is false
SkipLoad ==
    /\ pc = "start"
    /\ source = ""
    /\ pc' = "validate"
    /\ UNCHANGED <<input_text, selected, tmpfiles, loaded, envelope, interpolated, raised>>
    /\ UNCHANGED CallFixed

\* _load_source raises before any collaborator is called
LoadRejected ==
    /\ pc = "start"
    /\ source # ""
    /\ LoadPlan(world, source).kind = "raise"
    /\ LoadFailed(LoadPlan(world, source).outcome)
    /\ UNCHANGED <<input_text, selected, tmpfiles, loaded>>
    /\ UNCHANGED CallFixed

\* file: the file is opened and read
ReadFile ==
    /\ pc = "start"
    /\ source # ""
    /\ LoadPlan(world, source).kind = "read"
    /\ \E o \in ReadOutcomes : Loaded(o)
    /\ UNCHANGED <<selected, tmpfiles, loaded>>
    /\ UNCHANGED CallFixed

\* yt, github, pdf with a local path: the loader is called with the argument
CallLoader ==
    /\ pc = "start"
    /\ source # ""
    /\ LET plan == LoadPlan(world, source)
       IN  /\ plan.kind = "loader"
           /\ loaded' = [loader |-> plan.loader, arg |-> plan.arg]
    /\ \E o \in LoaderOutcomes : Loaded(o)
    /\ UNCHANGED <<selected, tmpfiles>>
    /\ UNCHANGED CallFixed

\* pdf with a URL: _download_url_to_temp(url, suffix='.pdf')
Download ==
    /\ pc = "start"
    /\ source # ""
    /\ LoadPlan(world, source).kind = "download"
    /\ \E u \in UrlopenOutcomes :
          LET d == _download_url_to_temp(tmpfiles, u)
          IN  /\ tmpfiles' = d.files
              /\ IF d.outcome.ok
                 THEN /\ pc' = "extract"
                      /\ UNCHANGED <<input_text, envelope, interpolated, raised>>
                 ELSE /\ LoadFailed(d.outcome)
                      /\ UNCHANGED input_text
    /\ UNCHANGED <<selected, loaded>>
    /\ UNCHANGED CallFixed

\* pdf with a URL: try: loaders['pdf'](temp_file) finally: os.unlink(temp_file)
Extract ==
    /\ pc = "extract"
    /\ loaded' = [loader |-> "pdf", arg |-> TempName]
    /\ tmpfiles' = tmpfiles \ {TempName}
    /\ \E o \in LoaderOutcomes : Loaded(o)
    /\ UNCHANGED selected
    /\ UNCHANGED CallFixed

\* url: the page is fetched and extracted
FetchUrl ==
    /\ pc = "start"
    /\ source # ""
    /\ LoadPlan(world, source).kind = "fetch"
    /\ \E o \in FetchOutcomes(LoadPlan(world, source).arg) : Loaded(o)
    /\ UNCHANGED <<selected, tmpfiles, loaded>>
    /\ UNCHANGED CallFixed

\* pattern.strip(), without an accidental fabric: prefix
PatternName(p) ==
    IF StartsWith(Strip(p), "fabric:") THEN SliceFrom(Strip(p), 7) ELSE Strip(p)

\* the validation of the arguments, and the choice between the explicit
\* pattern and the auto-selection
Validate ==
    /\ pc = "validate"
    /\ IF task = "" /\ pattern = ""
       THEN Returns("fabric_error", "type", "validation", FALSE,
                    "Either 'task' or 'pattern' must be provided.", "")
       ELSE /\ pc' = IF pattern # "" THEN "run" ELSE "select"
            /\ UNCHANGED <<envelope, interpolated, raised>>
    /\ UNCHANGED <<input_text, selected, tmpfiles, loaded>>
    /\ UNCHANGED CallFixed

\* the handlers around _run_pattern for an explicit pattern
ExplicitRunFailed(pattern_name, e) ==
    IF IsInstance(e.exc, "ValueError")
    THEN Returns("fabric_error", "pattern", pattern_name, FALSE,
                 "{e} Hint: Use prompt_fabric(task=...)", e.msg)
    ELSE IF IsInstance(e.exc, "Exception")
    THEN Returns("fabric_error", "pattern", pattern_name, FALSE,
                 "Pattern execution failed: {e}", e.msg)
    ELSE Propagates(e)

\* if pattern: the explicit pattern is run
RunExplicit ==
    /\ pc = "run"
    /\ \E lookup \in LookupOutcomes, answer \in ModelOutcomes :
          LET pattern_name == PatternName(pattern)
              result       == _run_pattern(pattern_name, lookup, answer)
          IN  IF result.ok
              THEN Returns("fabric_result", "pattern", pattern_name, FALSE,
                           "{result}", result.val)
              ELSE ExplicitRunFailed(pattern_name, result)
    /\ UNCHANGED <<input_text, selected, tmpfiles, loaded>>
    /\ UNCHANGED CallFixed

\* selected_pattern = _auto_select_pattern(task, input_text, source)
SelectPattern ==
    /\ pc = "select"
    /\ selected' = _auto_select_pattern(task, input_text, source)
    /\ pc' = IF selected' # None THEN "run_selected" ELSE "suggest"
    /\ UNCHANGED <<input_text, tmpfiles, loaded, envelope, interpolated, raised>>
    /\ UNCHANGED CallFixed

\* the handler around _run_pattern for an auto-selected pattern
SelectedRunFailed(e) ==
    IF IsInstance(e.exc, "Exception")
    THEN Returns("fabric_error", "pattern", selected, TRUE,
                 "Pattern execution failed: {e}", e.msg)
    ELSE Propagates(e)

\* if selected_pattern: the auto-selected pattern is run
RunSelected ==
    /\ pc = "run_selected"
    /\ \E lookup \in LookupOutcomes, answer \in ModelOutcomes :
          LET result == _run_pattern(selected, lookup, answer)
          IN  IF result.ok
              THEN Returns("fabric_result", "pattern", selected, TRUE,
                           "{result}", result.val)
              ELSE SelectedRunFailed(result)
    /\ UNCHANGED <<input_text, selected, tmpfiles, loaded>>
    /\ UNCHANGED CallFixed

\* no clear match: suggestions = _suggest_patterns(task)
Suggest ==
    /\ pc = "suggest"
    /\ \E lookup \in LookupOutcomes, answer \in ModelOutcomes :
          LET suggestions == _suggest_patterns(task, lookup, answer)
          IN  IF suggestions.ok
              THEN Returns("fabric_suggestions", "task", task, FALSE,
                           "{suggestions} Hint: Call prompt_fabric(pattern=...)",
                           suggestions.val)
              ELSE Propagates(suggestions)
    /\ UNCHANGED <<input_text, selected, tmpfiles, loaded>>
    /\ UNCHANGED CallFixed

NextFabric ==
    \/ SkipLoad
    \/ LoadRejected
    \/ ReadFile
    \/ CallLoader
    \/ Download
    \/ Extract
    \/ FetchUrl
    \/ Validate
    \/ RunExplicit
    \/ SelectPattern
    \/ RunSelected
    \/ Suggest

SpecFabric == InitFabric /\ [][NextFabric]_vars

(***************************************************************************)
(* Properties of prompt_fabric.                                            *)
(***************************************************************************)
EnvelopeTags == {"fabric_error", "fabric_result", "fabric_suggestions"}

\* C5: prompt_fabric always ends by returning a fabric_error, fabric_result
\* or fabric_suggestions envelope; no fault of a collaborator leaves it.
C5_AlwaysAnEnvelope ==
    pc = "done" => (raised = None /\ envelope.tag \in EnvelopeTags)

\* the suggestion call failed and the call still returned the suggestions
\* envelope, carrying the substitute text
C5_Witness ==
    /\ pc = "done"
    /\ raised = None
    /\ envelope.tag = "fabric_suggestions"
    /\ StartsWith(envelope.payload, "Error getting suggestions: ")

EscapeChar(c) ==
    CASE c = "&"  -> "&amp;"
      [] c = "<"  -> "&lt;"
      [] c = ">"  -> "&gt;"
      [] c = "\"" -> "&quot;"
      [] c = "'"  -> "&#x27;"
      [] OTHER    -> c

\* each of the five metacharacters of the text escaped, once
RECURSIVE EscapeFive(_)
EscapeFive(text) ==
    IF Len(text) = 0 THEN ""
    ELSE EscapeChar(Slice(text, 0, 1)) \o EscapeFive(SliceFrom(text, 1))

\* C6: every text interpolated into the envelope, attribute value and body
\* payload alike, appears with & < > " ' escaped, each exactly once.
C6_InterpolatedTextEscaped ==
    (pc = "done" /\ raised = None) =>
        /\ envelope.value = EscapeFive(interpolated.value)
        /\ envelope.payload = EscapeFive(interpolated.payload)

\* C7: no call ends with the temporary file of a download still on disk.
C7_TempFileDeleted ==
    pc = "done" => tmpfiles = {}

\* the stripped argument of a pdf source
PdfArgument(src) == Strip(SliceFrom(src, Find(src, ":") + 1))

\* the ordered heuristic, the first applicable rule deciding
ExpectedRemote(w, a) ==
    CASE StartsWith(a, "http://") \/ StartsWith(a, "https://") -> TRUE
      [] StartsWith(a, "/") \/ StartsWith(a, "./")
            \/ StartsWith(a, "../") \/ StartsWith(a, "~") -> FALSE
      [] a \in w.fs -> FALSE
      [] ~Contains(a, "/") -> FALSE
      [] OTHER -> Find(Slice(a, 0, Find(a, "/")), ".") > 0

\* the pdf branch of _load_source has classified the argument and acted on it
PdfClassified ==
    /\ pc # "start"
    /\ SourceTag(source) = "pdf"
    /\ "pdf" \in world.loaders

\* C11: for a pdf source the stripped argument is remote or local by the
\* ordered heuristic (scheme: remote; path marker: local; existing path:
\* local; no '/': local; else remote exactly when the first segment has a dot
\* after a non-empty label).  A remote argument is downloaded and the loader
\* gets at most the temporary file; a local argument is never downloaded and
\* the loader gets the expanded path.
C11_PdfClassification ==
    PdfClassified =>
        IF ExpectedRemote(world, PdfArgument(source))
        THEN /\ tmpfiles = {TempName} \/ loaded.arg = TempName
             /\ loaded.arg \in {None, TempName}
        ELSE /\ tmpfiles = {}
             /\ loaded = [loader |-> "pdf", arg |-> expanduser(PdfArgument(source))]

\* a path whose first segment holds a dot exists on disk, and the loader
\* was called with that path, nothing having been downloaded
C11_Witness ==
    /\ PdfClassified
    /\ Contains(Slice(PdfArgument(source), 0, Find(PdfArgument(source), "/")), ".")
    /\ PdfArgument(source) \in world.fs
    /\ loaded = [loader |-> "pdf", arg |-> PdfArgument(source)]
    /\ tmpfiles = {}

=============================================================================
